---- MODULE Spec2Model ----
(***************************************************************************)
(* State-machine model of src/lmstudio_sidekick.py: the sliding-window     *)
(* rate limiter, the completion gateway, the context store and the batch   *)
(* dispatcher of the LM Studio sidekick server.                            *)
(*                                                                         *)
(* Texts are TLA+ strings (sequences of characters): Len, \o and SubSeq    *)
(* act on them as Python's len, + and slicing do.  The pictographs that    *)
(* open the program's messages are written with ASCII stand-ins of the     *)
(* same number of code points, so that len() of every message is the       *)
(* program's: "!!" for the two code points of the warning sign, "#" for    *)
(* the cross mark, "+" for the check mark, "@" for the clipboard, "~" for  *)
(* the memo, "?" for the magnifying glass, "%" for the broom, "^" for the  *)
(* target, "*" for the light bulb and "o" for the bullet.                  *)
(*                                                                         *)
(* The tools are coroutines on one event loop.  requests.post is a         *)
(* blocking call and chat_completion holds no await, so a tool runs from   *)
(* its entry to its return without yielding, with one exception: the       *)
(* asyncio.sleep between two chunks of batch_process.  Every action below  *)
(* is therefore one tool invocation, or for batch_process the part of it   *)
(* between two suspensions.  The section on the event loop runs the same   *)
(* tools statement by statement, as concurrent tasks of the loop.          *)
(***************************************************************************)
EXTENDS Integers, Sequences, FiniteSets, TLC

VARIABLES
    now,            \* the clock read by time.time() and datetime.now()
    rate_limiter,   \* rate_limiter: client id -> list of admission timestamps
    granted,        \* history: per client, the times check_rate_limit returned True
    context_store,  \* context_store: context id -> {data, timestamp, tokens}
    batch,          \* the batch_process invocation suspended in asyncio.sleep, if any
    last,           \* the tool invocation that returned last, with what it did
    loop            \* the event loop: the task that runs, and the frame of each task

vars == <<now, rate_limiter, granted, context_store, batch, last, loop>>

-----------------------------------------------------------------------------
(* Configuration (read from the environment at import) and model bounds.   *)

\* RATE_LIMIT_WINDOW, seconds (environment variable; the default is 60)
RATE_LIMIT_WINDOW == 2
\* RATE_LIMIT_MAX_REQUESTS per window (environment variable; the default is 30)
RATE_LIMIT_MAX_REQUESTS == 2
\* MAX_CONTEXT_SIZE, tokens (environment variable; the default is 32000)
MAX_CONTEXT_SIZE == 20

\* The clock stops advancing at MaxTime.
MaxTime == 4

\* Client ids: every tool uses the default argument "default".
Clients == {"default", "a"}

Min(a, b) == IF a < b THEN a ELSE b

-----------------------------------------------------------------------------
(* check_rate_limit and estimate_tokens                                    *)

\* check_rate_limit that keeps one list for every client.
check_rate_limit_shared(rl, client_id, t) ==
    LET pruned == SelectSeq(rl["default"], LAMBDA x : t - x < RATE_LIMIT_WINDOW)
    IN  IF Len(pruned) >= RATE_LIMIT_MAX_REQUESTS
        THEN [ok |-> FALSE, rl |-> [rl EXCEPT !["default"] = pruned]]
        ELSE [ok |-> TRUE,  rl |-> [rl EXCEPT !["default"] = Append(pruned, t)]]

\* check_rate_limit that records the time of a refused call as well.
check_rate_limit_records_refusals(rl, client_id, t) ==
    LET pruned == SelectSeq(rl[client_id], LAMBDA x : t - x < RATE_LIMIT_WINDOW)
    IN  IF Len(pruned) >= RATE_LIMIT_MAX_REQUESTS
        THEN [ok |-> FALSE, rl |-> [rl EXCEPT ![client_id] = Append(pruned, t)]]
        ELSE [ok |-> TRUE,  rl |-> [rl EXCEPT ![client_id] = Append(pruned, t)]]

\* check_rate_limit that tests the length with > instead of >=.
check_rate_limit_off_by_one(rl, client_id, t) ==
    LET pruned == SelectSeq(rl[client_id], LAMBDA x : t - x < RATE_LIMIT_WINDOW)
    IN  IF Len(pruned) > RATE_LIMIT_MAX_REQUESTS
        THEN [ok |-> FALSE, rl |-> [rl EXCEPT ![client_id] = pruned]]
        ELSE [ok |-> TRUE,  rl |-> [rl EXCEPT ![client_id] = Append(pruned, t)]]

\* check_rate_limit(client_id) at time t on the map rl: the value returned
\* (ok) and the map afterwards (rl).  The list of a client never seen is
\* empty (defaultdict(list)).
check_rate_limit(rl, client_id, t) ==
    LET pruned == SelectSeq(rl[client_id], LAMBDA x : t - x < RATE_LIMIT_WINDOW)
    IN  IF Len(pruned) >= RATE_LIMIT_MAX_REQUESTS
        THEN [ok |-> FALSE, rl |-> [rl EXCEPT ![client_id] = pruned]]
        ELSE [ok |-> TRUE,  rl |-> [rl EXCEPT ![client_id] = Append(pruned, t)]]

\* estimate_tokens(text) = len(text) // 4
estimate_tokens(text) == Len(text) \div 4

-----------------------------------------------------------------------------
(* The backend and the completion gateway                                  *)

\* LMSTUDIO_HOST and LMSTUDIO_PORT, at their defaults.
HostPort == "localhost:1234"

\* What requests.post can do: raise (a connection failure or a timeout,
\* str(e) = msg), or return a response with a status code, and for a 200
\* its "choices" (the content of each) and its "model".
Raised(msg) == [raised |-> TRUE, msg |-> msg, status_code |-> 0, choices |-> <<>>, model |-> ""]
Response(code, choices) ==
    [raised |-> FALSE, msg |-> "", status_code |-> code, choices |-> choices,
     model |-> "qwen2.5-coder-32b-instruct"]

ShortContent == "A short answer."
\* 84 characters: 21 tokens, one more than MAX_CONTEXT_SIZE.
LongContent ==
    "012345678901234567890123456789012345678901234567890123456789012345678901234567890123"

Outcomes ==
    { Raised("Connection refused"),
      Response(500, <<>>),
      Response(404, <<>>),
      Response(200, <<>>),
      Response(200, <<"">>),
      Response(200, <<ShortContent>>) }

\* A 200 response that names the model.
ModelResponse(model) == [Response(200, <<>>) EXCEPT !.model = model]

\* What the backend does to get_current_model, which reads the status code
\* and the model only: the model names differ in case and in kind.
ModelOutcomes ==
    { Raised("Connection refused"), Response(500, <<>>), Response(200, <<>>),
      ModelResponse("Qwen2.5-Coder"), ModelResponse("Mistral-7B-Instruct"),
      ModelResponse("llama-3-8b") }

\* What the backend does to a call of batch_process or automate_menial_task:
\* they treat every text chat_completion returns alike, so one failure and
\* one success.
BatchOutcomes == {Raised("Connection refused"), Response(200, <<ShortContent>>)}

RateLimitText == "!! Rate limit exceeded. Please wait a moment before trying again."

\* The messages chat_completion sends: the system message when there is
\* one, then the user message.
Messages(prompt, system_prompt) ==
    (IF system_prompt # "" THEN <<[role |-> "system", content |-> system_prompt]>> ELSE <<>>)
        \o <<[role |-> "user", content |-> prompt]>>

\* CompletionText without the except clause of chat_completion: the
\* exception of requests.post leaves the tool.
CompletionText_uncaught(o) ==
    IF o.raised THEN "Error executing tool: " \o o.msg
    ELSE IF o.status_code # 200
    THEN "Error: LM Studio at " \o HostPort \o " returned status code " \o ToString(o.status_code)
    ELSE IF o.choices = <<>> THEN "Error: No response generated"
    ELSE IF o.choices[1] = "" THEN "Error: Empty response from model"
    ELSE o.choices[1]

\* CompletionText that reports every response without a completion alike.
CompletionText_merged(o) ==
    IF o.raised THEN "Error generating completion: " \o o.msg
    ELSE IF o.status_code # 200 THEN "Error: No response generated"
    ELSE IF o.choices = <<>> THEN "Error: No response generated"
    ELSE IF o.choices[1] = "" THEN "Error: Empty response from model"
    ELSE o.choices[1]

\* The text chat_completion makes of what requests.post did.
CompletionText(o) ==
    IF o.raised THEN "Error generating completion: " \o o.msg
    ELSE IF o.status_code # 200
    THEN "Error: LM Studio at " \o HostPort \o " returned status code " \o ToString(o.status_code)
    ELSE IF o.choices = <<>> THEN "Error: No response generated"
    ELSE IF o.choices[1] = "" THEN "Error: Empty response from model"
    ELSE o.choices[1]

\* chat_completion that takes the timestamp of the admission back when the
\* backend call produced no completion.
chat_completion_refund(rl, t, prompt, system_prompt, o) ==
    LET r == check_rate_limit(rl, "default", t)
        failed == o.raised \/ o.status_code # 200 \/ o.choices = <<>> \/ o.choices[1] = ""
    IN  IF ~r.ok
        THEN [text |-> RateLimitText, rl |-> r.rl, limited |-> TRUE,
              checks |-> 1, admits |-> 0, posts |-> <<>>]
        ELSE [text |-> CompletionText(o),
              rl |-> IF failed
                     THEN [r.rl EXCEPT !["default"] = SubSeq(@, 1, Len(@) - 1)]
                     ELSE r.rl,
              limited |-> FALSE,
              checks |-> 1, admits |-> 1, posts |-> <<Messages(prompt, system_prompt)>>]

\* chat_completion(prompt, system_prompt) at time t, the backend doing o:
\* the text returned, the rate limiter afterwards, whether the admission
\* was granted (admits) and the requests posted to /chat/completions.
chat_completion(rl, t, prompt, system_prompt, o) ==
    LET r == check_rate_limit(rl, "default", t)
    IN  IF ~r.ok
        THEN [text |-> RateLimitText, rl |-> r.rl, limited |-> TRUE,
              checks |-> 1, admits |-> 0, posts |-> <<>>]
        ELSE [text |-> CompletionText(o), rl |-> r.rl, limited |-> FALSE,
              checks |-> 1, admits |-> 1, posts |-> <<Messages(prompt, system_prompt)>>]

-----------------------------------------------------------------------------
(* get_current_model and automate_menial_task                              *)

\* pattern in text (Python's substring test)
Contains(pattern, text) ==
    \E i \in 0..(Len(text) - Len(pattern)) : SubSeq(text, i + 1, i + Len(pattern)) = pattern

\* str.lower() on one character (the ASCII letters)
LowerChar(c) ==
    CASE c = "A" -> "a" [] c = "B" -> "b" [] c = "C" -> "c" [] c = "D" -> "d"
      [] c = "E" -> "e" [] c = "F" -> "f" [] c = "G" -> "g" [] c = "H" -> "h"
      [] c = "I" -> "i" [] c = "J" -> "j" [] c = "K" -> "k" [] c = "L" -> "l"
      [] c = "M" -> "m" [] c = "N" -> "n" [] c = "O" -> "o" [] c = "P" -> "p"
      [] c = "Q" -> "q" [] c = "R" -> "r" [] c = "S" -> "s" [] c = "T" -> "t"
      [] c = "U" -> "u" [] c = "V" -> "v" [] c = "W" -> "w" [] c = "X" -> "x"
      [] c = "Y" -> "y" [] c = "Z" -> "z" [] OTHER -> c

\* model_info.lower()
RECURSIVE Lower(_)
Lower(text) ==
    IF text = "" THEN ""
    ELSE LowerChar(SubSeq(text, 1, 1)) \o Lower(SubSeq(text, 2, Len(text)))

\* get_current_model(): it posts a minimal completion request itself, with
\* no call of check_rate_limit.
get_current_model(o) ==
    [text |->
        IF o.raised
        THEN "# Error identifying current model at " \o HostPort \o ": " \o o.msg
        ELSE IF o.status_code # 200
        THEN "# No model currently loaded at " \o HostPort \o ". Status code: "
                 \o ToString(o.status_code)
        ELSE "^ Currently loaded model at " \o HostPort \o ": " \o o.model \o "\n\n"
                 \o (IF Contains("coder", Lower(o.model))
                     THEN "* This is a coding model - perfect for:\n"
                              \o "  o Code generation and refactoring\n"
                              \o "  o Debugging and optimization\n"
                              \o "  o Documentation tasks\n"
                     ELSE IF Contains("instruct", Lower(o.model))
                     THEN "* This is an instruction-following model - great for:\n"
                              \o "  o General Q&A and explanations\n"
                              \o "  o Task automation\n"
                              \o "  o Content generation\n"
                     ELSE ""),
     checks |-> 0, admits |-> 0,
     posts |-> <<Messages("Hi", "")>>]

TaskTypes == {"format", "extract", "transform", "validate", "generate"}

\* task_prompts[task_type]
TaskPrompt(task_type, output_format) ==
    CASE task_type = "format" ->
            "You are a formatting assistant. Format the following data as clean "
                \o output_format \o ". Be precise and consistent."
      [] task_type = "extract" ->
            "You are a data extraction assistant. Extract relevant information and present it as "
                \o output_format \o "."
      [] task_type = "transform" ->
            "You are a data transformation assistant. Transform the input according to common patterns and output as "
                \o output_format \o "."
      [] task_type = "validate" ->
            "You are a validation assistant. Check the data for errors, inconsistencies, or issues. Report findings clearly."
      [] task_type = "generate" ->
            "You are a content generation assistant. Generate appropriate content based on the input, formatted as "
                \o output_format \o "."

\* format_hints[output_format], or nothing for a format it does not hold
FormatHint(output_format) ==
    CASE output_format = "json" -> "\n\nOutput valid JSON only."
      [] output_format = "markdown" -> "\n\nUse proper Markdown formatting."
      [] output_format = "code" -> "\n\nOutput clean, properly formatted code."
      [] output_format = "text" -> "\n\nOutput plain text."
      [] OTHER -> ""

\* automate_menial_task(task_type, task_data, output_format) at time t: its
\* own check_rate_limit first, then the task type, then chat_completion.
automate_menial_task(rl, t, task_type, task_data, output_format, o) ==
    LET r == check_rate_limit(rl, "default", t)
    IN  IF ~r.ok
        THEN [text |-> RateLimitText, rl |-> r.rl, checks |-> 1, admits |-> 0, posts |-> <<>>]
        ELSE IF task_type \notin TaskTypes
        THEN [text |-> "# Unknown task type: " \o task_type
                          \o ". Available types: format, extract, transform, validate, generate",
              rl |-> r.rl, checks |-> 1, admits |-> 1, posts |-> <<>>]
        ELSE LET c == chat_completion(r.rl, t,
                          "Task: " \o task_type \o "\n\nData:\n" \o task_data,
                          TaskPrompt(task_type, output_format) \o FormatHint(output_format), o)
             IN  [text |-> c.text, rl |-> c.rl, checks |-> 1 + c.checks,
                  admits |-> 1 + c.admits, posts |-> c.posts]

-----------------------------------------------------------------------------
(* batch_process                                                           *)

\* The largest item list and the largest batch_size tried.
MaxItems == 3
MaxBatchSize == 2

\* The item lists tried: <<"i1", ..., "in">>
Items(n) == [j \in 1..n |-> "i" \o ToString(j)]

BatchSystemPrompt ==
    "You are a batch processing assistant. Process each item according to the specified operation. Be consistent across all items."

\* items[i:i + batch_size] that leaves out the last item of a full slice.
Chunk_short(items, i, batch_size) ==
    SubSeq(items, i + 1, Min(i + batch_size - 1, Len(items)))

\* items[i:i + batch_size]
Chunk(items, i, batch_size) ==
    SubSeq(items, i + 1, Min(i + batch_size, Len(items)))

\* The lines "idx. item\n" of the items of chunk from index idx on.
RECURSIVE ItemLines(_, _)
ItemLines(chunk, idx) ==
    IF idx > Len(chunk) THEN ""
    ELSE ToString(idx) \o ". " \o chunk[idx] \o "\n" \o ItemLines(chunk, idx + 1)

\* batch_prompt
BatchPrompt(chunk, operation) ==
    "Process these " \o ToString(Len(chunk)) \o " items with operation: " \o operation
        \o "\n\n" \o ItemLines(chunk, 1)

\* "\n\n---\n\n".join(results)
RECURSIVE Join(_)
Join(results) ==
    IF results = <<>> THEN ""
    ELSE IF Len(results) = 1 THEN results[1]
    ELSE results[1] \o "\n\n---\n\n" \o Join(Tail(results))

\* A batch_process invocation at the top of its loop: its arguments, the
\* loop variable i and results, and the record of what each iteration did
\* (trace), of the calls of check_rate_limit it made and of its sleeps.
NewBatch(items, operation, batch_size, combine_results) ==
    [pc |-> "run", items |-> items, operation |-> operation, batch_size |-> batch_size,
     combine_results |-> combine_results, i |-> 0, results |-> <<>>,
     trace |-> <<>>, checks |-> 0, admits |-> 0, posts |-> 0, delays |-> 0]

\* RunChunk that sleeps after the last chunk as well.
RunChunk_sleeps_after_last(b, rl, t, o) ==
    LET total_items == Len(b.items)
        chunk == Chunk(b.items, b.i, b.batch_size)
        batch_num == (b.i \div b.batch_size) + 1
        total_batches == (total_items + b.batch_size - 1) \div b.batch_size
        r == check_rate_limit(rl, "default", t)
    IN  IF ~r.ok
        THEN [rl |-> r.rl,
              b |-> [b EXCEPT
                  !.pc = "done",
                  !.results = Append(@, "!! Rate limit hit at batch " \o ToString(batch_num)
                                  \o ". Processed " \o ToString(b.i) \o " items."),
                  !.trace = Append(@, [chunk |-> chunk, admitted |-> FALSE,
                                       limited |-> FALSE, posted |-> FALSE]),
                  !.checks = @ + 1]]
        ELSE LET c == chat_completion(r.rl, t, BatchPrompt(chunk, b.operation),
                                      BatchSystemPrompt, o)
             IN  [rl |-> c.rl,
                  b |-> [b EXCEPT
                      !.pc = IF b.i + b.batch_size < total_items THEN "sleep" ELSE "done",
                      !.i = IF b.i + b.batch_size < total_items THEN @ + b.batch_size ELSE @,
                      !.results = Append(@, "**Batch " \o ToString(batch_num) \o "/"
                                      \o ToString(total_batches) \o ":**\n" \o c.text),
                      !.trace = Append(@, [chunk |-> chunk, admitted |-> TRUE,
                                           limited |-> c.limited, posted |-> c.posts # <<>>]),
                      !.checks = @ + 1 + c.checks,
                      !.admits = @ + 1 + c.admits,
                      !.posts = @ + Len(c.posts),
                      !.delays = @ + 1]]

\* One iteration of the loop of batch_process, at time t, the backend doing
\* o: the invocation afterwards (pc "sleep": in asyncio.sleep before the
\* next iteration; pc "done": the loop is over) and the rate limiter.
\* An entry of trace holds the chunk, whether batch_process's own
\* check_rate_limit passed (admitted), and whether chat_completion refused
\* the call as rate limited (limited) or posted it to the backend (posted).
RunChunk(b, rl, t, o) ==
    LET total_items == Len(b.items)
        chunk == Chunk(b.items, b.i, b.batch_size)
        batch_num == (b.i \div b.batch_size) + 1
        total_batches == (total_items + b.batch_size - 1) \div b.batch_size
        r == check_rate_limit(rl, "default", t)
    IN  IF ~r.ok
        THEN [rl |-> r.rl,
              b |-> [b EXCEPT
                  !.pc = "done",
                  !.results = Append(@, "!! Rate limit hit at batch " \o ToString(batch_num)
                                  \o ". Processed " \o ToString(b.i) \o " items."),
                  !.trace = Append(@, [chunk |-> chunk, admitted |-> FALSE,
                                       limited |-> FALSE, posted |-> FALSE]),
                  !.checks = @ + 1]]
        ELSE LET c == chat_completion(r.rl, t, BatchPrompt(chunk, b.operation),
                                      BatchSystemPrompt, o)
             IN  [rl |-> c.rl,
                  b |-> [b EXCEPT
                      !.pc = IF b.i + b.batch_size < total_items THEN "sleep" ELSE "done",
                      !.i = IF b.i + b.batch_size < total_items THEN @ + b.batch_size ELSE @,
                      !.results = Append(@, "**Batch " \o ToString(batch_num) \o "/"
                                      \o ToString(total_batches) \o ":**\n" \o c.text),
                      !.trace = Append(@, [chunk |-> chunk, admitted |-> TRUE,
                                           limited |-> c.limited, posted |-> c.posts # <<>>]),
                      !.checks = @ + 1 + c.checks,
                      !.admits = @ + 1 + c.admits,
                      !.posts = @ + Len(c.posts),
                      !.delays = IF b.i + b.batch_size < total_items THEN @ + 1 ELSE @]]

\* What batch_process returns when its loop is over: the joined text, or
\* the object it hands to json.dumps.
BatchResult(b) ==
    IF b.combine_results
    THEN Join(b.results)
    ELSE [total_items |-> Len(b.items),
          processed_items |-> Min(Len(b.results) * b.batch_size, Len(b.items)),
          results |-> b.results]

-----------------------------------------------------------------------------
(* offload_context and clear_contexts                                      *)

\* The dictionary cs with cs[key] = entry
Put(cs, key, entry) ==
    [k \in DOMAIN cs \cup {key} |-> IF k = key THEN entry ELSE cs[k]]

\* A context_store entry.  datetime.now().isoformat() is the clock reading t.
Entry(data, t) == [data |-> data, timestamp |-> t, tokens |-> estimate_tokens(data)]

\* The store branch that writes the entry before it tests the size.
store_context_write_first(cs, t, context_id, context_data) ==
    LET estimated_tokens == estimate_tokens(context_data)
    IN  IF estimated_tokens > MAX_CONTEXT_SIZE
        THEN [text |-> "!! Context too large (" \o ToString(estimated_tokens)
                          \o " tokens). Maximum is " \o ToString(MAX_CONTEXT_SIZE) \o " tokens.",
              cs |-> Put(cs, context_id, Entry(context_data, t))]
        ELSE [text |-> "+ Context stored successfully. ID: " \o context_id \o " ("
                          \o ToString(estimated_tokens) \o " tokens)",
              cs |-> Put(cs, context_id, Entry(context_data, t))]

\* The store branch that rebuilds the dictionary with the one entry.
store_context_alone(cs, t, context_id, context_data) ==
    LET estimated_tokens == estimate_tokens(context_data)
    IN  IF estimated_tokens > MAX_CONTEXT_SIZE
        THEN [text |-> "!! Context too large (" \o ToString(estimated_tokens)
                          \o " tokens). Maximum is " \o ToString(MAX_CONTEXT_SIZE) \o " tokens.",
              cs |-> cs]
        ELSE [text |-> "+ Context stored successfully. ID: " \o context_id \o " ("
                          \o ToString(estimated_tokens) \o " tokens)",
              cs |-> [k \in {context_id} |-> Entry(context_data, t)]]

\* offload_context, operation == "store"
store_context(cs, t, context_id, context_data) ==
    LET estimated_tokens == estimate_tokens(context_data)
    IN  IF estimated_tokens > MAX_CONTEXT_SIZE
        THEN [text |-> "!! Context too large (" \o ToString(estimated_tokens)
                          \o " tokens). Maximum is " \o ToString(MAX_CONTEXT_SIZE) \o " tokens.",
              cs |-> cs]
        ELSE [text |-> "+ Context stored successfully. ID: " \o context_id \o " ("
                          \o ToString(estimated_tokens) \o " tokens)",
              cs |-> Put(cs, context_id, Entry(context_data, t))]

\* offload_context, operation == "retrieve"
retrieve_context(cs, context_id) ==
    IF context_id \notin DOMAIN cs
    THEN "# Context ID '" \o context_id \o "' not found."
    ELSE "@ Context retrieved:\n\n" \o cs[context_id].data \o "\n\n(Stored: "
             \o ToString(cs[context_id].timestamp) \o ", "
             \o ToString(cs[context_id].tokens) \o " tokens)"

SummarizeSystemPrompt ==
    "You are a helpful assistant that creates concise summaries. Summarize the following context, preserving key information."
AnalyzeSystemPrompt ==
    "You are an analytical assistant. Extract key points, entities, and actionable items from the context."

\* The clock when a call of chat_completion made at time t has returned:
\* requests.post blocks for the time wait, a call that posts nothing
\* returns at once.
Returned_at(c, t, wait) == IF c.posts = <<>> THEN t ELSE t + wait

\* offload_context(context_id, context_data, operation) called at time t,
\* the backend doing o after the time wait: the text returned, the store
\* and the rate limiter afterwards, the calls made and the clock at the
\* return (now).  The summarize branch reads the clock for the timestamp of
\* the summary after chat_completion has returned.
offload_context(cs, rl, t, context_id, context_data, operation, o, wait) ==
    IF operation = "store"
    THEN LET s == store_context(cs, t, context_id, context_data)
         IN  [text |-> s.text, cs |-> s.cs, rl |-> rl, now |-> t,
              checks |-> 0, admits |-> 0, posts |-> <<>>]
    ELSE IF operation = "retrieve"
    THEN [text |-> retrieve_context(cs, context_id), cs |-> cs, rl |-> rl, now |-> t,
          checks |-> 0, admits |-> 0, posts |-> <<>>]
    ELSE IF operation = "summarize"
    THEN LET c == chat_completion(rl, t, "Please summarize this context:\n\n" \o context_data,
                                  SummarizeSystemPrompt, o)
             t_after == Returned_at(c, t, wait)
         IN  [text |-> "~ Summary created:\n\n" \o c.text,
              cs |-> Put(cs, context_id \o "_summary", Entry(c.text, t_after)),
              rl |-> c.rl, now |-> t_after,
              checks |-> c.checks, admits |-> c.admits, posts |-> c.posts]
    ELSE IF operation = "analyze"
    THEN LET c == chat_completion(rl, t,
                                  "Analyze this context and extract key information:\n\n"
                                      \o context_data,
                                  AnalyzeSystemPrompt, o)
         IN  [text |-> "? Analysis:\n\n" \o c.text, cs |-> cs,
              rl |-> c.rl, now |-> Returned_at(c, t, wait),
              checks |-> c.checks, admits |-> c.admits, posts |-> c.posts]
    ELSE [text |-> "# Unknown operation: " \o operation
                      \o ". Use 'store', 'retrieve', 'summarize', or 'analyze'.",
          cs |-> cs, rl |-> rl, now |-> t, checks |-> 0, admits |-> 0, posts |-> <<>>]

\* clear_contexts that matches the pattern at the start of the id only.
clear_contexts_prefix(cs, context_pattern) ==
    IF context_pattern = "*"
    THEN [text |-> "% Cleared all " \o ToString(Cardinality(DOMAIN cs)) \o " stored contexts.",
          cs |-> [k \in {} |-> cs[k]]]
    ELSE LET matched_keys ==
                 {k \in DOMAIN cs : Len(context_pattern) <= Len(k)
                                    /\ SubSeq(k, 1, Len(context_pattern)) = context_pattern}
         IN  [text |-> "% Cleared " \o ToString(Cardinality(matched_keys))
                           \o " contexts matching '" \o context_pattern \o "'.",
              cs |-> [k \in DOMAIN cs \ matched_keys |-> cs[k]]]

\* clear_contexts(context_pattern): the text returned and the store afterwards
clear_contexts(cs, context_pattern) ==
    IF context_pattern = "*"
    THEN [text |-> "% Cleared all " \o ToString(Cardinality(DOMAIN cs)) \o " stored contexts.",
          cs |-> [k \in {} |-> cs[k]]]
    ELSE LET matched_keys == {k \in DOMAIN cs : Contains(context_pattern, k)}
         IN  [text |-> "% Cleared " \o ToString(Cardinality(matched_keys))
                           \o " contexts matching '" \o context_pattern \o "'.",
              cs |-> [k \in DOMAIN cs \ matched_keys |-> cs[k]]]

-----------------------------------------------------------------------------
(* Initial state: the module has just been imported.                       *)

Idle == [pc |-> "idle"]

\* The tasks of the event loop: two tool invocations can be under way at
\* the same time.
Tasks == {1, 2}

\* The frame of a task that runs no tool invocation.  A frame holds the
\* statement the invocation is at (pc), the tool and its arguments, for
\* batch_process the invocation as NewBatch makes it (b), the local "now"
\* of check_rate_limit (t), the response of chat_completion (text), what
\* the invocation read when it tested the rate limit or the size (seen), and
\* the requests batch_process had posted and the responses it had received
\* (calls).
NoFrame ==
    [pc |-> "none", op |-> "", arg |-> <<>>, b |-> Idle, t |-> 0, text |-> "",
     seen |-> <<>>, calls |-> <<>>]

\* context_store = {}
EmptyStore == [k \in {} |-> Entry("", 0)]

Init ==
    /\ now = 0
    /\ rate_limiter = [c \in Clients |-> <<>>]
    /\ granted = [c \in Clients |-> <<>>]
    /\ context_store = EmptyStore
    /\ batch = Idle
    /\ last = [op |-> "none"]
    /\ loop = [running |-> 0, tasks |-> [t \in Tasks |-> NoFrame]]

\* Time passes.
Tick ==
    /\ now < MaxTime
    /\ now' = now + 1
    /\ UNCHANGED <<rate_limiter, granted, context_store, batch, last, loop>>

\* A call check_rate_limit(c), with the history of grants kept, and whether
\* the call before it was a refused call of the same client.
Admit(c) ==
    LET r == check_rate_limit(rate_limiter, c, now)
    IN  /\ rate_limiter' = r.rl
        /\ granted' = IF r.ok THEN [granted EXCEPT ![c] = Append(@, now)] ELSE granted
        /\ last' = [op |-> "check_rate_limit", client |-> c, ok |-> r.ok,
                    after_refusal |-> /\ last.op = "check_rate_limit"
                                      /\ last.client = c
                                      /\ ~last.ok]
        /\ UNCHANGED <<now, context_store, batch, loop>>

NextRate == Tick \/ \E c \in Clients : Admit(c)

\* The rate limiter alone: any sequence of check_rate_limit calls, for any
\* client, at non-decreasing times.
SpecRate == Init /\ [][NextRate]_vars

-----------------------------------------------------------------------------
(* The tools that reach the backend                                        *)

Prompts == {"Hello"}
SystemPrompts == {"", "Be brief."}

\* The outcome recorded for a call that sent no request.
NoCall == Response(0, <<>>)

\* chat_completion(prompt, system_prompt), with what the backend did to the
\* request it sent.
ChatCompletion(prompt, system_prompt, o) ==
    LET c == chat_completion(rate_limiter, now, prompt, system_prompt, o)
    IN  /\ rate_limiter' = c.rl
        /\ last' = [op |-> "chat_completion", text |-> c.text, checks |-> c.checks,
                    admits |-> c.admits, posts |-> Len(c.posts), requests |-> c.posts,
                    outcome |-> IF c.posts = <<>> THEN NoCall ELSE o]
        /\ UNCHANGED <<now, granted, context_store, batch, loop>>

\* get_current_model() on each outcome of ModelOutcomes
ModelResults == [o \in ModelOutcomes |-> get_current_model(o)]

\* get_current_model()
GetCurrentModel(o) ==
    LET g == ModelResults[o]
    IN  /\ last' = [op |-> "get_current_model", text |-> g.text, checks |-> g.checks,
                    admits |-> g.admits, posts |-> Len(g.posts), requests |-> g.posts]
        /\ UNCHANGED <<now, rate_limiter, granted, context_store, batch, loop>>

TaskTypeArgs == {"format", "shred"}
OutputFormats == {"json", "yaml"}

\* automate_menial_task(task_type, "a, b", output_format)
AutomateMenialTask(task_type, output_format, o) ==
    LET a == automate_menial_task(rate_limiter, now, task_type, "a, b", output_format, o)
    IN  /\ rate_limiter' = a.rl
        /\ last' = [op |-> "automate_menial_task", text |-> a.text, checks |-> a.checks,
                    admits |-> a.admits, posts |-> Len(a.posts), requests |-> a.posts]
        /\ UNCHANGED <<now, granted, context_store, batch, loop>>

\* What a batch_process invocation that returned leaves in last.
BatchReturned(b, result) ==
    [op |-> "batch_process", items |-> b.items, batch_size |-> b.batch_size,
     combine_results |-> b.combine_results, result |-> result, trace |-> b.trace,
     checks |-> b.checks, admits |-> b.admits, posts |-> b.posts, delays |-> b.delays]

\* An iteration of batch_process has run: the invocation sleeps, or returns.
BatchAfter(s) ==
    /\ rate_limiter' = s.rl
    /\ IF s.b.pc = "sleep"
       THEN batch' = s.b /\ UNCHANGED last
       ELSE batch' = Idle /\ last' = BatchReturned(s.b, BatchResult(s.b))
    /\ UNCHANGED <<now, granted, context_store, loop>>

\* batch_process(items, "upper", batch_size, combine_results) is called and
\* runs to its first sleep or to its return.
BatchStart(items, batch_size, combine_results, o) ==
    /\ batch.pc = "idle"
    /\ IF items = <<>>
       THEN /\ last' = BatchReturned(NewBatch(items, "upper", batch_size, combine_results),
                                     "# No items provided for batch processing.")
            /\ UNCHANGED <<now, rate_limiter, granted, context_store, batch, loop>>
       ELSE BatchAfter(RunChunk(NewBatch(items, "upper", batch_size, combine_results),
                                rate_limiter, now, o))

\* The sleeping batch_process wakes up and runs its next iteration.
BatchResume(o) ==
    /\ batch.pc = "sleep"
    /\ BatchAfter(RunChunk(batch, rate_limiter, now, o))

NextGateway ==
    \/ Tick
    \/ \E o \in Outcomes, p \in Prompts, sp \in SystemPrompts : ChatCompletion(p, sp, o)
    \/ \E o \in ModelOutcomes : GetCurrentModel(o)
    \/ \E o \in BatchOutcomes :
        \/ \E tt \in TaskTypeArgs, f \in OutputFormats : AutomateMenialTask(tt, f, o)
        \/ \E n \in 0..MaxItems, k \in 1..MaxBatchSize, cr \in BOOLEAN :
               BatchStart(Items(n), k, cr, o)
        \/ BatchResume(o)

\* The tools that call the backend, invoked in any order at any times.
SpecGateway == Init /\ [][NextGateway]_vars

-----------------------------------------------------------------------------
(* The tools of the context store                                          *)

\* In SpecStore the clock stops at MaxStoreTime.
MaxStoreTime == 1

ContextIds == {"proj1", "other"}
\* 84 characters: 21 tokens, one more than MAX_CONTEXT_SIZE.
BigText ==
    "The quick brown fox jumps over the lazy dog. The quick brown fox jumps over the dog."
\* Context data of 1, 2 and 21 tokens.
Texts == {"alpha", "alpha beta", BigText}
\* The ids summarize and analyze are called with.
DeriveIds == {"proj1"}
SummaryIds == {id \o "_summary" : id \in DeriveIds}
\* What the backend does to a summarize or analyze call.
StoreOutcomes ==
    {Raised("Connection refused"), Response(200, <<ShortContent>>), Response(200, <<LongContent>>)}
Patterns == {"*", "proj", "_summary", "other", "zzz", ""}

TickStore == now < MaxStoreTime /\ Tick

\* The text of a store that was accepted.
StoredText(context_id, tokens) ==
    "+ Context stored successfully. ID: " \o context_id \o " (" \o ToString(tokens) \o " tokens)"

\* For a retrieve: the id of the store that was accepted by the invocation
\* just before it, or "" when that was no accepted store.
Follows(l, operation) ==
    IF operation = "retrieve" /\ l.op = "offload_context" /\ l.operation = "store"
           /\ l.text = StoredText(l.context_id, estimate_tokens(l.context_data))
    THEN l.context_id ELSE ""

\* The times requests.post can take when called at time t: it answers
\* within the clock reading of the call or the next one, and the clock stops
\* at MaxStoreTime.
Waits(t) == {w \in {0, 1} : t + w <= MaxStoreTime}

\* offload_context(context_id, context_data, operation): the clock moves on
\* while the invocation is in requests.post.
OffloadContext(context_id, context_data, operation, o) ==
    \E wait \in IF operation \in {"summarize", "analyze"} THEN Waits(now) ELSE {0} :
        LET r == offload_context(context_store, rate_limiter, now,
                                 context_id, context_data, operation, o, wait)
        IN  /\ now' = r.now
            /\ context_store' = r.cs
            /\ rate_limiter' = r.rl
            /\ last' = [op |-> "offload_context", operation |-> operation,
                        context_id |-> context_id, context_data |-> context_data,
                        text |-> r.text, checks |-> r.checks, admits |-> r.admits,
                        posts |-> Len(r.posts), requests |-> r.posts,
                        follows |-> Follows(last, operation)]
            /\ UNCHANGED <<granted, batch, loop>>

\* clear_contexts(context_pattern)
ClearContexts(context_pattern) ==
    LET r == clear_contexts(context_store, context_pattern)
    IN  /\ context_store' = r.cs
        /\ last' = [op |-> "clear_contexts", context_pattern |-> context_pattern,
                    text |-> r.text, checks |-> 0, admits |-> 0, posts |-> 0]
        /\ UNCHANGED <<now, rate_limiter, granted, batch, loop>>

NextStore ==
    \/ TickStore
    \/ \E id \in ContextIds, d \in Texts : OffloadContext(id, d, "store", Raised(""))
    \/ \E id \in ContextIds \cup SummaryIds, op \in {"retrieve", "archive"} :
           OffloadContext(id, "", op, Raised(""))
    \/ \E id \in DeriveIds, op \in {"summarize", "analyze"}, o \in StoreOutcomes :
           OffloadContext(id, "alpha", op, o)
    \/ \E p \in Patterns : ClearContexts(p)

\* The context store: store, retrieve, summarize, analyze and clear in any
\* order.
SpecStore == Init /\ [][NextStore]_vars

-----------------------------------------------------------------------------
(* The tools on inputs and backend outcomes that make them fail            *)

\* batch_process(items, operation, batch_size, combine_results) with a
\* batch_size that is not positive: range(0, total_items, 0) raises
\* ValueError, which the except clause turns into text; a negative step
\* gives an empty range, so the loop body never runs.
batch_process_no_loop(items, operation, batch_size, combine_results) ==
    IF items = <<>> THEN "# No items provided for batch processing."
    ELSE IF batch_size = 0
    THEN "Error in batch processing: range() arg 3 must not be zero"
    ELSE BatchResult(NewBatch(items, operation, batch_size, combine_results))

\* batch_process(items, "upper", batch_size, combine_results), batch_size <= 0
BatchNoLoop(items, batch_size, combine_results) ==
    /\ batch_size <= 0
    /\ last' = BatchReturned(NewBatch(items, "upper", batch_size, combine_results),
                             batch_process_no_loop(items, "upper", batch_size,
                                                   combine_results))
    /\ UNCHANGED <<now, rate_limiter, granted, context_store, batch, loop>>

\* The arguments tried: item lists, batch sizes, context data, operations
\* (one of them unknown) and patterns.
FaultItems == {Items(0), Items(2)}
FaultBatchSizes == {-1, 0}
FaultTexts == {"alpha", BigText}
FaultOperations == {"store", "retrieve", "summarize", "analyze", "archive"}
FaultPatterns == {"*", "proj"}

NextFaults ==
    \/ TickStore
    \/ \E o \in Outcomes : ChatCompletion("Hello", "", o)
    \/ \E o \in BatchOutcomes :
        \/ \E tt \in TaskTypeArgs : AutomateMenialTask(tt, "json", o)
        \/ \E items \in FaultItems, cr \in BOOLEAN : BatchStart(items, 1, cr, o)
        \/ BatchResume(o)
        \/ \E d \in FaultTexts, op \in FaultOperations : OffloadContext("proj1", d, op, o)
    \/ \E items \in FaultItems, k \in FaultBatchSizes, cr \in BOOLEAN :
           BatchNoLoop(items, k, cr)
    \/ \E p \in FaultPatterns : ClearContexts(p)

\* Every tool, with arguments and backend outcomes that make it fail.
SpecFaults == Init /\ [][NextFaults]_vars

-----------------------------------------------------------------------------
(* The event loop                                                          *)
(*                                                                         *)
(* The tools run as tasks of one asyncio event loop, statement by          *)
(* statement.  A task that runs keeps the loop until it returns or reaches *)
(* a statement that suspends it; only then can another task start or       *)
(* resume.                                                                 *)

\* The statements that suspend, with an await put between the test and the
\* write of check_rate_limit and of the store branch.
Suspends_before_write(pc) == pc \in {"sleep", "append", "b_append", "st_insert"}

\* The statements at which a coroutine hands the loop to the other tasks:
\* await asyncio.sleep(0.5) in batch_process and no other.  requests.post is
\* an ordinary call, the thread of the loop waits inside it; awaiting
\* chat_completion runs it in the caller's task.
Suspends(pc) == pc = "sleep"

\* A loop variable that leaves out one item after every chunk.
NextIndex_skip(i, batch_size) == i + batch_size + 1

\* for i in range(0, total_items, batch_size): the i of the next iteration
NextIndex(i, batch_size) == i + batch_size

\* [t for t in rate_limiter[client_id] if now - t < RATE_LIMIT_WINDOW]
Pruned(rl, client_id, t) == SelectSeq(rl[client_id], LAMBDA x : t - x < RATE_LIMIT_WINDOW)

\* The messages of the request the invocation of frame f posts.
Request(f) ==
    IF f.op = "chat_completion" THEN Messages(f.arg[1], f.arg[2])
    ELSE IF f.op = "summarize"
    THEN Messages("Please summarize this context:\n\n" \o f.arg[2], SummarizeSystemPrompt)
    ELSE Messages(BatchPrompt(Chunk(f.b.items, f.b.i, f.b.batch_size), f.b.operation),
                  BatchSystemPrompt)

\* The entry of calls for a request of frame f that is posted or returns:
\* the messages and, for batch_process, the loop variable i and the number
\* of iterations that were over.
Call(f, ev) ==
    [ev |-> ev, req |-> Request(f),
     i |-> IF f.op = "batch_process" THEN f.b.i ELSE 0,
     iterations |-> IF f.op = "batch_process" THEN Len(f.b.trace) ELSE 0]

\* What a statement leaves: the frame, the rate limiter and the store, and
\* when the tool has returned (done) the text it returned.
Goes(f, rl, cs) == [f |-> f, rl |-> rl, cs |-> cs, done |-> FALSE, text |-> ""]
Returns(f, rl, cs, text) == [f |-> f, rl |-> rl, cs |-> cs, done |-> TRUE, text |-> text]

\* chat_completion has returned text to the tool of frame f (f.pc tells
\* whether from the rate-limit test or from the request): chat_completion
\* itself returns it, the summarize branch of offload_context goes on to
\* write the summary, batch_process appends the result of the chunk and
\* sleeps or returns.
Completed(f, rl, cs, text) ==
    IF f.op = "chat_completion" THEN Returns(f, rl, cs, text)
    ELSE IF f.op = "summarize"
    THEN Goes([f EXCEPT !.pc = "sum_write", !.text = text], rl, cs)
    ELSE LET b == f.b
             total_items == Len(b.items)
             batch_num == (b.i \div b.batch_size) + 1
             total_batches == (total_items + b.batch_size - 1) \div b.batch_size
             more == b.i + b.batch_size < total_items
             nb == [b EXCEPT
                      !.results = Append(@, "**Batch " \o ToString(batch_num) \o "/"
                                      \o ToString(total_batches) \o ":**\n" \o text),
                      !.trace = Append(@, [chunk |-> Chunk(b.items, b.i, b.batch_size),
                                           admitted |-> TRUE,
                                           limited |-> f.pc = "check",
                                           posted |-> f.pc = "post"]),
                      !.delays = IF more THEN @ + 1 ELSE @]
         IN  IF more
             THEN Goes([f EXCEPT !.pc = "sleep", !.b = nb], rl, cs)
             ELSE Returns([f EXCEPT !.b = nb], rl, cs, BatchResult(nb))

\* The statement frame f is at, executed at time t; o is what the backend
\* does to the request when the statement is the return of requests.post.
Step(f, rl, cs, t, o) ==
    CASE f.pc \in {"check", "b_check"} ->
            \* check_rate_limit, lines 60-65: prune and test
            LET pruned == Pruned(rl, "default", t)
                rl1 == [rl EXCEPT !["default"] = pruned]
                f1 == IF f.op = "batch_process" THEN [f EXCEPT !.b.checks = @ + 1] ELSE f
            IN  IF Len(pruned) >= RATE_LIMIT_MAX_REQUESTS
                THEN IF f.pc = "check"
                     THEN Completed(f1, rl1, cs, RateLimitText)
                     ELSE LET b == f1.b
                              nb == [b EXCEPT
                                  !.results = Append(@,
                                      "!! Rate limit hit at batch "
                                          \o ToString((b.i \div b.batch_size) + 1)
                                          \o ". Processed " \o ToString(b.i) \o " items."),
                                  !.trace = Append(@,
                                      [chunk |-> Chunk(b.items, b.i, b.batch_size),
                                       admitted |-> FALSE, limited |-> FALSE,
                                       posted |-> FALSE])]
                          IN  Returns([f1 EXCEPT !.b = nb], rl1, cs, BatchResult(nb))
                ELSE Goes([f1 EXCEPT !.pc = IF f.pc = "check" THEN "append" ELSE "b_append",
                                     !.t = t, !.seen = pruned],
                          rl1, cs)
      [] f.pc = "b_append" ->
            \* check_rate_limit, line 67, called from batch_process
            Goes(IF f.op = "batch_process"
                 THEN [f EXCEPT !.pc = "check", !.b.admits = @ + 1]
                 ELSE [f EXCEPT !.pc = "check"],
                 [rl EXCEPT !["default"] = Append(@, f.t)], cs)
      [] f.pc = "append" ->
            \* check_rate_limit, line 67, called from chat_completion, which
            \* then builds the messages and calls requests.post
            Goes(IF f.op = "batch_process"
                 THEN [f EXCEPT !.pc = "post", !.b.admits = @ + 1, !.b.posts = @ + 1,
                                !.calls = Append(@, Call(f, "post"))]
                 ELSE [f EXCEPT !.pc = "post",
                                !.calls = Append(@, Call(f, "post"))],
                 [rl EXCEPT !["default"] = Append(@, f.t)], cs)
      [] f.pc = "post" ->
            \* requests.post returns or raises
            Completed([f EXCEPT !.calls = Append(@, Call(f, "return"))],
                      rl, cs, CompletionText(o))
      [] f.pc = "sum_write" ->
            \* the summarize branch, lines 329-336
            Returns(f, rl, Put(cs, f.arg[1] \o "_summary", Entry(f.text, t)),
                    "~ Summary created:\n\n" \o f.text)
      [] f.pc = "sleep" ->
            \* asyncio.sleep is over: the next iteration
            Goes([f EXCEPT !.pc = "b_check", !.b.i = NextIndex(@, f.b.batch_size)], rl, cs)
      [] f.pc = "st_check" ->
            \* the store branch, lines 300-302
            IF estimate_tokens(f.arg[2]) > MAX_CONTEXT_SIZE
            THEN Returns(f, rl, cs, store_context(cs, t, f.arg[1], f.arg[2]).text)
            ELSE Goes([f EXCEPT !.pc = "st_insert", !.seen = cs], rl, cs)
      [] f.pc = "st_insert" ->
            \* the store branch, lines 304-309
            LET s == store_context(cs, t, f.arg[1], f.arg[2])
            IN  Returns(f, rl, s.cs, s.text)
      [] f.pc = "clear" ->
            LET c == clear_contexts(cs, f.arg[1])
            IN  Returns(f, rl, c.cs, c.text)

\* The first statement of a tool.
Entry_pc(op) ==
    CASE op \in {"chat_completion", "summarize"} -> "check"
      [] op = "store" -> "st_check"
      [] op = "clear_contexts" -> "clear"
      [] op = "batch_process" -> "b_check"

\* The loop is free and takes up a tool invocation with the arguments arg
\* as task t.
Start(t, op, arg) ==
    /\ loop.running = 0
    /\ loop.tasks[t].pc = "none"
    /\ loop' = [running |-> t,
                tasks |-> [loop.tasks EXCEPT
                              ![t] = [NoFrame EXCEPT
                                         !.pc = Entry_pc(op), !.op = op, !.arg = arg,
                                         !.b = IF op = "batch_process"
                                               THEN NewBatch(arg[1], arg[2], arg[3], arg[4])
                                               ELSE Idle]]]
    /\ UNCHANGED <<now, rate_limiter, granted, context_store, batch, last>>

\* Task t can execute its statement: it holds the loop, or the loop is
\* free and the task is suspended.
Runnable(t) ==
    /\ loop.tasks[t].pc # "none"
    /\ \/ loop.running = t
       \/ loop.running = 0 /\ Suspends(loop.tasks[t].pc)

\* Task t has executed a statement: it keeps the loop unless it returned or
\* is suspended now.
After(t, s) ==
    /\ rate_limiter' = s.rl
    /\ context_store' = s.cs
    /\ loop' = [running |-> IF s.done \/ Suspends(s.f.pc) THEN 0 ELSE t,
                tasks |-> [loop.tasks EXCEPT ![t] = IF s.done THEN NoFrame ELSE s.f]]
    /\ last' = IF s.done
               THEN [op |-> s.f.op, task |-> t, arg |-> s.f.arg, text |-> s.text,
                     b |-> s.f.b, calls |-> s.f.calls]
               ELSE last
    /\ UNCHANGED <<now, granted, batch>>

\* Task t executes its statement, any but the return of requests.post.
RunStep(t) ==
    /\ Runnable(t)
    /\ loop.tasks[t].pc # "post"
    /\ After(t, Step(loop.tasks[t], rate_limiter, context_store, now, NoCall))

\* The backend answers the request of task t, or the request fails.
BackendResponds(t, o) ==
    /\ Runnable(t)
    /\ loop.tasks[t].pc = "post"
    /\ After(t, Step(loop.tasks[t], rate_limiter, context_store, now, o))

\* Time passes while the loop is free or waits inside requests.post.
TickLoop ==
    /\ \A t \in Tasks : loop.running = t => loop.tasks[t].pc = "post"
    /\ Tick

NextLoop ==
    \/ TickLoop
    \/ \E n \in 1..MaxItems, k \in 1..MaxBatchSize :
           Start(1, "batch_process", <<Items(n), "upper", k, TRUE>>)
    \/ \E t \in Tasks :
        \/ \E p \in Prompts : Start(t, "chat_completion", <<p, "">>)
        \/ \E d \in {"alpha", BigText} : Start(t, "store", <<"proj1", d>>)
        \/ Start(t, "clear_contexts", <<"*">>)
        \/ RunStep(t)
        \/ \E o \in BatchOutcomes : BackendResponds(t, o)

\* The tools as concurrent tasks of the event loop.
SpecLoop == Init /\ [][NextLoop]_vars

\* offload_context(.., "summarize"), offload_context(.., "store") and
\* clear_contexts as concurrent tasks, the clock stopping at MaxStoreTime.
NextRace ==
    \/ TickLoop /\ now < MaxStoreTime
    \/ \E t \in Tasks :
        \/ \E id \in ContextIds : Start(t, "summarize", <<id, "alpha">>)
        \/ \E id \in ContextIds : Start(t, "store", <<id, "alpha">>)
        \/ \E p \in {"*", "_summary"} : Start(t, "clear_contexts", <<p>>)
        \/ RunStep(t)
        \/ \E o \in BatchOutcomes : BackendResponds(t, o)

SpecRace == Init /\ [][NextRace]_vars

\* Every tool and the clock: the whole server.
Next == NextRate \/ NextGateway \/ NextStore \/ NextFaults \/ NextLoop \/ NextRace

Spec == Init /\ [][Next]_vars

-----------------------------------------------------------------------------
(* Claims                                                                  *)

\* The grants of client c whose time lies in the window of
\* RATE_LIMIT_WINDOW seconds that ends at x: x - RATE_LIMIT_WINDOW < t <= x.
GrantsInWindow(c, x) ==
    {i \in DOMAIN granted[c] :
        x - granted[c][i] < RATE_LIMIT_WINDOW /\ granted[c][i] <= x}

\* C1: for every client and every sequence of check_rate_limit calls at
\* non-decreasing times, the calls that returned True within any sliding
\* interval of RATE_LIMIT_WINDOW seconds (the interval that ends at x and
\* starts RATE_LIMIT_WINDOW before it, start excluded, as the code's prune
\* now - t < RATE_LIMIT_WINDOW counts it) number at most
\* RATE_LIMIT_MAX_REQUESTS.
C1_SlidingWindowBound ==
    \A c \in Clients : \A x \in 0..MaxTime :
        Cardinality(GrantsInWindow(c, x)) <= RATE_LIMIT_MAX_REQUESTS

\* C1 witness: a client was refused with its window full, and over its
\* whole history it holds more grants than one window allows.
C1_Witness ==
    \E c \in Clients :
        /\ last.op = "check_rate_limit" /\ last.client = c /\ ~last.ok
        /\ Len(granted[c]) > RATE_LIMIT_MAX_REQUESTS
        /\ Cardinality(GrantsInWindow(c, now)) = RATE_LIMIT_MAX_REQUESTS

\* The tools that send completion requests through chat_completion.
GatewayOps == {"chat_completion", "automate_menial_task", "batch_process"}

\* C2: the completion gateway is the sole path to the backend: a tool sends
\* no more requests to /chat/completions than it was granted admissions
\* for, so every request has its admission and a refused call sends none.
C2_GatewayIsSolePath ==
    /\ last.op # "none" /\ last.op # "check_rate_limit" => last.posts <= last.admits
    /\ batch.pc = "sleep" => batch.posts <= batch.admits

\* C3: each attempted backend completion call adds exactly one admission
\* timestamp to the rate window, whichever of chat_completion,
\* automate_menial_task and batch_process (per chunk) issues it: the
\* admissions an invocation recorded are as many as the requests it sent.
C3_OneAdmissionPerCall ==
    /\ last.op \in GatewayOps /\ last.posts >= 1 => last.admits = last.posts
    /\ batch.pc = "sleep" /\ batch.posts >= 1 => batch.admits = batch.posts

\* An iteration of batch_process that was refused as rate limited, by
\* batch_process's own check or inside chat_completion.
Refused(e) == ~e.admitted \/ e.limited

\* The items of the chunks of trace that were posted to the backend.
RECURSIVE PostedItems(_)
PostedItems(trace) ==
    IF trace = <<>> THEN 0
    ELSE (IF Head(trace).posted THEN Len(Head(trace).chunk) ELSE 0) + PostedItems(Tail(trace))

\* C4: in batch_process, once a chunk's completion call fails as rate
\* limited, processing stops at once: that iteration is the last one (no
\* later chunk is sent, no further admission is asked for), and the result
\* returned reports how many items were processed before the refused chunk.
C4_BatchStopsAtRateLimit ==
    /\ batch.pc = "sleep" =>
           \A j \in 1..Len(batch.trace) : ~Refused(batch.trace[j])
    /\ last.op = "batch_process" =>
           \A j \in 1..Len(last.trace) :
               Refused(last.trace[j]) =>
                   /\ j = Len(last.trace)
                   /\ LET text == IF last.combine_results THEN last.result
                                  ELSE last.result.results[j]
                          said == "Processed "
                                      \o ToString(PostedItems(SubSeq(last.trace, 1, j - 1)))
                                      \o " items."
                      IN  Contains(said, text)

\* C5: batch_process with combine_results false returns total_items equal
\* to the input length, processed_items equal to the number of items in the
\* chunks whose backend call was carried out (also when a rate-limit hit cut
\* the batch short), and one entry of results per chunk, in chunk order.
C5_StructuredResult ==
    last.op = "batch_process" /\ ~last.combine_results /\ last.items # <<>> =>
        /\ last.result.total_items = Len(last.items)
        /\ last.result.processed_items = PostedItems(last.trace)
        /\ Len(last.result.results) = Len(last.trace)
        /\ \A j \in 1..Len(last.trace) :
               last.trace[j].posted =>
                   Contains("**Batch " \o ToString(j) \o "/", last.result.results[j])

\* The chunks of trace, one after the other.
RECURSIVE Concat(_)
Concat(trace) ==
    IF trace = <<>> THEN <<>> ELSE Head(trace).chunk \o Concat(Tail(trace))

\* C10: a batch_process run over N >= 1 items with batch_size k >= 1 that is
\* never rate limited makes ceil(N/k) consecutive chunks that keep the input
\* order and together are the input, each of size k except the last, of
\* size 1 to k, and posts each chunk (so each item) to the backend once.
C10_Chunking ==
    last.op = "batch_process" /\ last.items # <<>>
        /\ (\A j \in 1..Len(last.trace) : ~Refused(last.trace[j])) =>
        LET N == Len(last.items)
            k == last.batch_size
            n == Len(last.trace)
        IN  /\ n * k >= N /\ (n - 1) * k < N
            /\ Concat(last.trace) = last.items
            /\ \A j \in 1..(n - 1) : Len(last.trace[j].chunk) = k
            /\ Len(last.trace[n].chunk) \in 1..k
            /\ \A j \in 1..n : last.trace[j].posted
            /\ last.posts = n

\* C10 witness: a run of two chunks or more, none refused, whose last chunk
\* is smaller than batch_size.
C10_Witness ==
    /\ last.op = "batch_process"
    /\ Len(last.trace) >= 2
    /\ \A j \in 1..Len(last.trace) : ~Refused(last.trace[j])
    /\ Len(last.trace[Len(last.trace)].chunk) < last.batch_size

\* C6: every entry of the context store, after any sequence of store,
\* summarize, analyze, retrieve and clear operations, has
\* tokens = estimate_tokens(data) and tokens <= MAX_CONTEXT_SIZE, the
\* "<id>_summary" entries written by summarize included.
C6_EntryInvariant ==
    \A k \in DOMAIN context_store :
        /\ context_store[k].tokens = estimate_tokens(context_store[k].data)
        /\ context_store[k].tokens <= MAX_CONTEXT_SIZE

\* l is the return of offload_context(context_id, context_data, "store").
IsStore(l, context_id, context_data) ==
    /\ l.op = "offload_context" /\ l.operation = "store"
    /\ l.context_id = context_id /\ l.context_data = context_data

\* C7: a store whose data has estimate_tokens(data) > MAX_CONTEXT_SIZE is
\* rejected as too large and leaves the context store exactly as it was: no
\* entry is added, and an entry under the same id keeps its data, timestamp
\* and token count.  (A step with now unchanged that ends with last the
\* return of a store is that store.)
C7_RejectedStoreKeepsStore ==
    [][\A id \in ContextIds, d \in Texts :
          now' = now /\ IsStore(last', id, d) /\ estimate_tokens(d) > MAX_CONTEXT_SIZE =>
              /\ Contains("Context too large", last'.text)
              /\ context_store' = context_store]_vars

\* C7 witness: an oversize store was rejected for an id that holds an entry
\* stored earlier.
C7_Witness ==
    \E id \in ContextIds, d \in Texts :
        /\ IsStore(last, id, d) /\ estimate_tokens(d) > MAX_CONTEXT_SIZE
        /\ id \in DOMAIN context_store
        /\ context_store[id].timestamp < now

\* C8: for every id and every data accepted by store, a retrieve of the
\* same id right after the store returns exactly the stored data and the
\* token count the store reported; and a store on an id writes that entry
\* (over the one it held, if any) and changes no entry under another id.
C8_StoreRetrieveRoundTrip ==
    [][\A id \in ContextIds, d \in Texts :
          /\ /\ now' = now /\ IsStore(last, id, d) /\ last'.op = "offload_context"
             /\ last'.operation = "retrieve" /\ last'.context_id = id
             => \A n \in 0..MAX_CONTEXT_SIZE :
                    last.text = StoredText(id, n) =>
                        \E ts \in 0..MaxTime :
                            last'.text = "@ Context retrieved:\n\n" \o d \o "\n\n(Stored: "
                                             \o ToString(ts) \o ", " \o ToString(n) \o " tokens)"
          /\ now' = now /\ IsStore(last', id, d) /\ Contains("stored successfully", last'.text) =>
                 /\ id \in DOMAIN context_store'
                 /\ context_store'[id].data = d
                 /\ DOMAIN context_store' = DOMAIN context_store \cup {id}
                 /\ \A k \in DOMAIN context_store \ {id} :
                        context_store'[k] = context_store[k]]_vars

\* C8 witness: a retrieve ran right after an accepted store of the same id,
\* which wrote over an entry while other ids hold entries.
C8_Witness ==
    /\ last.op = "offload_context" /\ last.operation = "retrieve"
    /\ last.follows = last.context_id
    /\ Contains("Context retrieved", last.text)
    /\ context_store[last.context_id].timestamp = now /\ now > 0
    /\ Cardinality(DOMAIN context_store) >= 2

\* C9: clear_contexts("*") leaves the store empty; clear_contexts(p) for
\* another p removes exactly the entries whose id contains p, and leaves
\* every other entry as it was; the count reported is the number of entries
\* removed.  (A step with now unchanged that ends with last the return of a
\* clear_contexts is that clear_contexts.)
C9_ClearRemovesMatches ==
    [][\A p \in Patterns :
          now' = now /\ last'.op = "clear_contexts" /\ last'.context_pattern = p =>
              LET removed == DOMAIN context_store \ DOMAIN context_store'
              IN  /\ DOMAIN context_store' \subseteq DOMAIN context_store
                  /\ \A k \in DOMAIN context_store' : context_store'[k] = context_store[k]
                  /\ IF p = "*"
                     THEN /\ DOMAIN context_store' = {}
                          /\ last'.text = "% Cleared all " \o ToString(Cardinality(removed))
                                              \o " stored contexts."
                     ELSE /\ removed = {k \in DOMAIN context_store : Contains(p, k)}
                          /\ last'.text = "% Cleared " \o ToString(Cardinality(removed))
                                              \o " contexts matching '" \o p \o "'."]_vars

\* C9 witness: a clear_contexts with a pattern other than "*" removed two
\* entries and left another in the store.
C9_Witness ==
    /\ last.op = "clear_contexts" /\ last.context_pattern # "*"
    /\ Contains("Cleared 2 contexts", last.text)
    /\ context_store # EmptyStore

\* C11: summarize and analyze on a context id that is not in the store fail
\* with the not-found text without calling chat_completion: no request is
\* sent to the backend, no admission is consumed, the store stays as it was.
C11_DeriveOnAbsentIdIsNotFound ==
    [][(/\ now' = now
        /\ last'.op = "offload_context"
        /\ last'.operation \in {"summarize", "analyze"}
        /\ last'.context_id \notin DOMAIN context_store)
       => (/\ last'.text = retrieve_context(context_store, last'.context_id)
           /\ last'.posts = 0
           /\ last'.admits = 0
           /\ rate_limiter' = rate_limiter
           /\ context_store' = context_store)]_vars

\* The text that follows the heading of a summarize result.
SummaryBody(text) == SubSeq(text, Len("~ Summary created:\n\n") + 1, Len(text))

\* The texts chat_completion returns when no completion was produced.
IsErrorText(text) ==
    \/ text = RateLimitText
    \/ Len(text) >= 5 /\ SubSeq(text, 1, 5) = "Error"

\* C12: summarize writes the entry "<id>_summary" only when the completion
\* succeeded: when chat_completion was refused by the rate limiter or the
\* backend call failed, the store stays as it was and no error text becomes
\* a summary entry.
C12_SummaryOnlyOnSuccess ==
    [][(/\ now' = now
        /\ last'.op = "offload_context"
        /\ last'.operation = "summarize"
        /\ IsErrorText(SummaryBody(last'.text)))
       => context_store' = context_store]_vars

\* The timestamps of client c that check_rate_limit keeps at time t.
InWindow(rl, c, t) == {i \in DOMAIN rl[c] : t - rl[c][i] < RATE_LIMIT_WINDOW}

\* C13: the budgets of the clients are isolated: a call check_rate_limit(c)
\* leaves the list of every other client as it was, and whether it is
\* granted depends on the list of c alone.
C13_ClientsIsolated ==
    [][\A c \in Clients :
          (now' = now /\ last'.op = "check_rate_limit" /\ last'.client = c)
          => (/\ \A b \in Clients \ {c} : rate_limiter'[b] = rate_limiter[b]
              /\ last'.ok = (Cardinality(InWindow(rate_limiter, c, now))
                                < RATE_LIMIT_MAX_REQUESTS))]_vars

\* A client was granted a call while the window of another client is full.
C13_Witness ==
    /\ last.op = "check_rate_limit"
    /\ last.ok
    /\ \E b \in Clients \ {last.client} :
           Cardinality(InWindow(rate_limiter, b, now)) = RATE_LIMIT_MAX_REQUESTS

\* C15: a rate-limited client recovers: once more than RATE_LIMIT_WINDOW
\* seconds have passed since the last call of client c that was granted,
\* the next check_rate_limit(c) is granted, however many calls were refused
\* in between; a refused call records nothing.
C15_RecoversAfterWindow ==
    [][\A c \in Clients :
          (now' = now /\ last'.op = "check_rate_limit" /\ last'.client = c)
          => (/\ (/\ Len(granted[c]) > 0
                  /\ now - granted[c][Len(granted[c])] > RATE_LIMIT_WINDOW)
                 => last'.ok
              /\ ~last'.ok => /\ rate_limiter'[c] = rate_limiter[c]
                              /\ granted'[c] = granted[c])]_vars

\* A client whose window was full and who was refused is granted a call
\* more than RATE_LIMIT_WINDOW seconds after its last granted one.
C15_Witness ==
    /\ last.op = "check_rate_limit"
    /\ last.ok
    /\ last.after_refusal
    /\ LET g == granted[last.client]
       IN  /\ Len(g) = RATE_LIMIT_MAX_REQUESTS + 1
           /\ g[Len(g)] = now
           /\ now - g[Len(g) - 1] > RATE_LIMIT_WINDOW

\* C14: the admission of a chat_completion whose backend call fails stays
\* in the window: after the failed call the list of the client is the pruned
\* list with the time of the call appended, as after a successful one, and
\* no step takes a timestamp that is still inside the window out of it.
C14_FailedCallKeepsAdmission ==
    [][now' = now
       => (/\ (/\ batch' = batch
               /\ last'.op = "chat_completion"
               /\ last'.posts = 1
               /\ IsErrorText(last'.text))
              => rate_limiter'["default"]
                     = Append(SelectSeq(rate_limiter["default"],
                                        LAMBDA x : now - x < RATE_LIMIT_WINDOW), now)
           /\ Cardinality(InWindow(rate_limiter', "default", now))
                  >= Cardinality(InWindow(rate_limiter, "default", now)))]_vars

\* A chat_completion call whose backend call failed has filled the window.
C14_Witness ==
    /\ last.op = "chat_completion"
    /\ last.posts = 1
    /\ IsErrorText(last.text)
    /\ Len(rate_limiter["default"]) = RATE_LIMIT_MAX_REQUESTS
    /\ rate_limiter["default"][RATE_LIMIT_MAX_REQUESTS] = now

\* text starts with prefix
StartsWith(text, prefix) ==
    Len(text) >= Len(prefix) /\ SubSeq(text, 1, Len(prefix)) = prefix

\* The kind of a backend outcome: the request could not be completed
\* (timeout, connection failure), a status other than 200, a 200 without
\* choices or with an empty content, or a completion.
KindOfOutcome(o) ==
    IF o.raised THEN <<"BackendUnreachable">>
    ELSE IF o.status_code # 200 THEN <<"BackendBadStatus", o.status_code>>
    ELSE IF o.choices = <<>> \/ o.choices[1] = "" THEN <<"EmptyCompletion">>
    ELSE <<"Success">>

\* The kind a caller reads from the text chat_completion returned; the
\* status codes are those of Outcomes.
KindOfText(text) ==
    IF StartsWith(text, "Error generating completion: ") THEN <<"BackendUnreachable">>
    ELSE IF \E o \in Outcomes :
                text = "Error: LM Studio at " \o HostPort \o " returned status code "
                           \o ToString(o.status_code)
    THEN <<"BackendBadStatus",
           (CHOOSE o \in Outcomes :
                text = "Error: LM Studio at " \o HostPort \o " returned status code "
                           \o ToString(o.status_code)).status_code>>
    ELSE IF text \in {"Error: No response generated", "Error: Empty response from model"}
    THEN <<"EmptyCompletion">>
    ELSE <<"Success">>

\* C19: chat_completion maps what the backend did to a kind of its own: a
\* timeout or connection failure to the unreachable text, a status c other
\* than 200 to the bad-status text that carries c, no choices or an empty
\* content to an empty-completion text, and only a non-empty content is
\* returned as the completion, unchanged.
C19_OutcomeKinds ==
    (last.op = "chat_completion" /\ last.posts = 1)
    => (/\ KindOfText(last.text) = KindOfOutcome(last.outcome)
        /\ KindOfOutcome(last.outcome) = <<"Success">>
               => last.text = last.outcome.choices[1])

\* chat_completion has returned the bad-status text for a 404.
C19_Witness ==
    /\ last.op = "chat_completion"
    /\ last.posts = 1
    /\ last.outcome.status_code = 404
    /\ KindOfText(last.text) = <<"BackendBadStatus", 404>>

\* Another task than t starts a tool invocation or executes a statement.
OtherTaskSteps(t) ==
    \E u \in Tasks \ {t} :
        \/ \E p \in Prompts : Start(u, "chat_completion", <<p, "">>)
        \/ Start(u, "store", <<"proj1", "alpha">>)
        \/ Start(u, "clear_contexts", <<"*">>)
        \/ RunStep(u)
        \/ \E o \in BatchOutcomes : BackendResponds(u, o)

\* C16: the backend call of chat_completion and the pacing delay of
\* batch_process are suspension points: while an invocation waits in
\* requests.post or in asyncio.sleep, another invocation can start or go on
\* with its own operation.
C16_SuspensionPointsYield ==
    \A t \in Tasks :
        loop.tasks[t].pc \in {"post", "sleep"} => ENABLED OtherTaskSteps(t)

\* C17: the read-modify-write sequences are atomic under every
\* interleaving of the tasks: from the test of check_rate_limit to its
\* append, and from the size test of the store branch to its insert, the
\* task keeps the loop and the list (the store) is still the one it tested,
\* so that the list of a client never holds more than
\* RATE_LIMIT_MAX_REQUESTS timestamps.
C17_ReadModifyWriteAtomic ==
    /\ Len(rate_limiter["default"]) <= RATE_LIMIT_MAX_REQUESTS
    /\ \A t \in Tasks :
          /\ loop.tasks[t].pc \in {"append", "b_append"}
                => /\ loop.running = t
                   /\ rate_limiter["default"] = loop.tasks[t].seen
          /\ loop.tasks[t].pc = "st_insert"
                => /\ loop.running = t
                   /\ context_store = loop.tasks[t].seen

\* Two invocations are under way: batch_process sleeps between two chunks
\* and another task has passed the test of check_rate_limit on a list that
\* its append fills.
C17_Witness ==
    /\ loop.tasks[1].pc = "sleep"
    /\ loop.tasks[2].pc = "append"
    /\ Len(rate_limiter["default"]) = RATE_LIMIT_MAX_REQUESTS - 1

\* The requests of a batch_process invocation b in calls are posted one at
\* a time and in the order of the items: a request is followed by its
\* return before the next one is posted, and the request posted when n
\* iterations are over is that of the chunk of the items from
\* n * batch_size on.
CallsInOrder(b, calls) ==
    \A n \in DOMAIN calls :
        /\ calls[n].ev = IF n % 2 = 1 THEN "post" ELSE "return"
        /\ calls[n].i = calls[n].iterations * b.batch_size
        /\ calls[n].req = Messages(BatchPrompt(Chunk(b.items, calls[n].i, b.batch_size),
                                               b.operation),
                                   BatchSystemPrompt)
        /\ n % 2 = 0 => calls[n].i = calls[n - 1].i
        /\ n > 2 /\ n % 2 = 1 => calls[n].i > calls[n - 2].i

\* C20: within one batch_process invocation the chunks are issued in input
\* order, one at a time: the request of a chunk is posted only after the
\* request of the chunk before it has returned, and never are two requests
\* of one invocation in flight.
C20_ChunksInOrderOneAtATime ==
    /\ \A t \in Tasks :
          loop.tasks[t].op = "batch_process"
          => /\ CallsInOrder(loop.tasks[t].b, loop.tasks[t].calls)
             /\ (Len(loop.tasks[t].calls) % 2 = 1) = (loop.tasks[t].pc = "post")
    /\ last.op = "batch_process"
          => /\ CallsInOrder(last.b, last.calls)
             /\ Len(last.calls) % 2 = 0

\* A batch_process invocation has returned after three chunks, each posted
\* and answered, while another invocation ran during one of its sleeps.
C20_Witness ==
    /\ last.op = "batch_process"
    /\ Len(last.calls) = 6
    /\ context_store # EmptyStore

\* What the caller gets when an exception leaves a tool: the fault the
\* server reports in place of the tool's result.
Uncaught(msg) == "Error executing tool: " \o msg

\* C18: every tool invocation ends by returning a text, whatever its
\* arguments and whatever the backend does, a rate-limit refusal included:
\* no exception leaves chat_completion, offload_context,
\* automate_menial_task, batch_process or clear_contexts, and after a failed
\* invocation the next one can be served.
C18_EveryInvocationReturnsText ==
    last.op # "none"
    => /\ IF last.op # "batch_process"
          THEN ~StartsWith(last.text, Uncaught(""))
          ELSE IF last.combine_results \/ last.items = <<>> \/ last.batch_size = 0
          THEN ~StartsWith(last.result, Uncaught(""))
          \* the object that json.dumps turns into the text
          ELSE last.result.total_items = Len(last.items)
       /\ ENABLED (\E o \in Outcomes : ChatCompletion("Hello", "", o))
       /\ ENABLED ClearContexts("*")

\* batch_process has turned the ValueError of a zero batch_size into text,
\* after a summarize whose backend call failed.
C18_Witness ==
    /\ last.op = "batch_process"
    /\ last.batch_size = 0
    /\ last.result = "Error in batch processing: range() arg 3 must not be zero"
    /\ "proj1_summary" \in DOMAIN context_store
    /\ IsErrorText(context_store["proj1_summary"].data)

\* The iterations of a batch_process invocation that called chat_completion
\* and were not the last of the item list.
PacedChunks(items, batch_size, trace) ==
    {j \in DOMAIN trace : trace[j].admitted /\ j * batch_size < Len(items)}

\* C21: batch_process sleeps after a chunk call exactly when chunks remain:
\* there is one pacing delay between two consecutive chunk calls of an
\* invocation and none after the last chunk.  While the invocation sleeps
\* every chunk so far was followed by a delay and items remain; when it has
\* returned, its delays are those of the chunks that were called and were
\* not the last one.
C21_PacingDelays ==
    /\ batch.pc = "sleep"
          => /\ batch.delays = Len(batch.trace)
             /\ Len(batch.trace) * batch.batch_size < Len(batch.items)
             /\ PacedChunks(batch.items, batch.batch_size, batch.trace) = DOMAIN batch.trace
    /\ last.op = "batch_process"
          => last.delays
                 = Cardinality(PacedChunks(last.items, last.batch_size, last.trace))

\* Three chunks were posted: a delay after the first and after the second,
\* none after the third.
C21_Witness ==
    /\ last.op = "batch_process"
    /\ Len(last.trace) = 3
    /\ \A j \in 1..3 : last.trace[j].posted
    /\ last.delays = 2

\* The invocation recorded in l was rejected before any request to the
\* backend: automate_menial_task with an unknown task type, offload_context
\* with an unknown operation or a store that is too large, a retrieve,
\* batch_process with no items, clear_contexts.
RejectedBeforeBackend(l) ==
    \/ l.op = "automate_menial_task" /\ StartsWith(l.text, "# Unknown task type: ")
    \/ /\ l.op = "offload_context"
       /\ \/ l.operation \notin {"store", "retrieve", "summarize", "analyze"}
          \/ l.operation = "retrieve"
          \/ l.operation = "store" /\ StartsWith(l.text, "!! Context too large")
    \/ l.op = "batch_process" /\ l.items = <<>>
    \/ l.op = "clear_contexts"

\* C23: the rate budget is consumed only by invocations that attempt a
\* backend call: an invocation rejected before any request to the backend
\* leaves the list of every client as it was.
C23_RejectedCallsKeepBudget ==
    [][(now' = now /\ batch' = batch /\ RejectedBeforeBackend(last'))
       => rate_limiter' = rate_limiter]_vars


\* Task t is in the summarize branch of offload_context between the issue
\* of its backend request (line 245, called from line 322) and the write of
\* the summary (line 330).
SummarizeInFlight(t) ==
    /\ loop.tasks[t].op = "summarize"
    /\ loop.tasks[t].pc \in {"post", "sum_write"}

\* Another task than t starts clear_contexts or executes its statement.
ClearRuns(t) ==
    \E u \in Tasks \ {t} :
        \/ \E p \in {"*", "_summary"} : Start(u, "clear_contexts", <<p>>)
        \/ loop.tasks[u].op = "clear_contexts" /\ RunStep(u)

\* C22: the race of clear_contexts with summarize is reachable: while a
\* summarize is in flight, after its backend request was issued and before
\* it writes "<id>_summary", clear_contexts can run to completion, so that
\* the summary is written into a store the clear has already left.
C22_ClearRunsDuringSummarize ==
    \A t \in Tasks : SummarizeInFlight(t) => ENABLED ClearRuns(t)

====
